---------------------------- MODULE Spec2Model ----------------------------
(***************************************************************************)
(* Coordination layer of the CanAirIO firmware (src/src/main.cpp):         *)
(*   - setup(): the startup sequence,                                      *)
(*   - loop(): the eight-step main loop,                                   *)
(*   - refreshGUIData(): which sensor values go to the display,            *)
(*   - MyGUIUserPreferencesCallbacks: the preference handlers, which run   *)
(*     in the GUI's own execution context and therefore interleave with    *)
(*     setup() and loop() statement by statement,                          *)
(*   - the watchdog armed by wd.init() and fed by wd.loop().               *)
(*                                                                         *)
(* Time is discrete.  One tick is the bounded duration of one step of      *)
(* setup() or loop(); a step that never returns lets the rest of the       *)
(* watchdog timeout elapse.                                                *)
(***************************************************************************)
EXTENDS Integers, Sequences, FiniteSets, TLC

VARIABLES
    pc,         \* next statement of the main thread (setup() then loop())
    nvs,        \* persisted preferences (flash), survives a reset
    cfg,        \* cfg: the in-memory configuration fields
    sensors,    \* sensors: sample_time, detected device, last reading
    gui,        \* gui: registered callbacks, current screen
    welcome,    \* gui.welcomeAddMessage lines, in order
    guiData,    \* last gui.setSensorData arguments
    guiFlags,   \* last gui.setGUIStatusFlags arguments
    wifiConnected, \* WiFi.isConnected()
    wd,         \* watchdog: state and timer
    stalled,    \* the statement at pc was entered and never returns
    hpc,        \* next statement of the preference handler in progress
    hev,        \* the preference event being handled
    calls,      \* collaborator calls made by the handler in progress
    iter,       \* loop() statements executed in the current iteration
    setupLog    \* setup() statements executed in the current boot

vars == <<pc, nvs, cfg, sensors, gui, welcome, guiData, guiFlags,
          wifiConnected, wd, stalled, hpc, hev, calls, iter, setupLog>>

-----------------------------------------------------------------------------
(* Bounds of the model *)

MaxSampleTime == 2

MaxDeviceType == 5

(* Program constants *)

\* the watchdog timeout, a build flag, in ticks: longer than the fourteen
\* steps from wd.init() to the first wd.loop() and than one iteration
WATCHDOG_TIME == 16

CO2_RECAL_FACTOR == 418

PM_DEVICE_MAX == 3

SETUP_SAMPLE_TIME == 1

UINT16_MOD == 65536

-----------------------------------------------------------------------------
(* Value domains *)

SampleTimes == 0..MaxSampleTime

\* the brightness and the colour inversion are stored by their handlers and
\* read by nothing in this source: their events carry the stored values
Brightnesses == {0}

Inversions == {0}

DeviceTypes == 0..MaxDeviceType

\* device types the main specification lets detection report: both sides
\* of the particulate / CO2 boundary
DetectableTypes == {PM_DEVICE_MAX, PM_DEVICE_MAX + 1}

NoDevice == -1

\* humidity and temperature are in tenths (48.2 is 482); 0 is 0.0
PM25Values == {12, 35}

CO2Values == {650, 900}

HumiValues == {0, 400}

TempValues == {0, 250}

CO2HumiValues == {0, 482}

CO2TempValues == {0, 221}

AllReadings ==
    [pm25: PM25Values, co2: CO2Values, humi: HumiValues, temp: TempValues,
     co2humi: CO2HumiValues, co2temp: CO2TempValues]

ZeroReading ==
    [pm25 |-> 0, co2 |-> 0, humi |-> 0, temp |-> 0, co2humi |-> 0, co2temp |-> 0]

\* the reading a poll of the main specification delivers
PollReadings ==
    { [pm25 |-> 35, co2 |-> 900, humi |-> 0, temp |-> 250, co2humi |-> 482, co2temp |-> 221] }

B2I(b) == IF b THEN 1 ELSE 0

Call(op, arg) == [op |-> op, arg |-> arg]

NoEvent == [type |-> "none", arg |-> 0]

Events ==
    [type: {"WifiToggled"}, arg: {0, 1}]
    \cup [type: {"ColorInversionToggled"}, arg: Inversions]
    \cup [type: {"BrightnessChanged"}, arg: Brightnesses]
    \cup [type: {"SampleTimeChanged"}, arg: SampleTimes]
    \cup [type: {"CalibrationRequested"}, arg: {0}]

-----------------------------------------------------------------------------
(* State after power-on / reset: RAM is cleared, flash is kept *)

UnloadedCfg == [stime |-> 0, wifiEnable |-> FALSE]

NoGuiData ==
    [mainValue |-> 0, humi |-> 0, temp |-> 0, deviceType |-> 0, shown |-> FALSE]

NoFlags == [wifi |-> FALSE, sensors |-> FALSE, ble |-> FALSE, shown |-> FALSE]

InitGui == [callbacks |-> FALSE, screen |-> "off"]

\* sensors.sample_time before startingSensors() is the sensor library's
\* default, which this source does not set: any positive value
RamInit ==
    /\ pc = "cfgInit"
    /\ cfg = UnloadedCfg
    /\ \E t \in 1..MaxSampleTime :
         sensors = [sample_time |-> t, deviceType |-> NoDevice, configured |-> FALSE,
                    reading |-> ZeroReading, recal |-> 0, error |-> FALSE,
                    arg |-> <<>>]
    /\ gui = InitGui
    /\ welcome = <<>>
    /\ guiData = NoGuiData
    /\ guiFlags = NoFlags
    /\ wifiConnected = FALSE
    /\ wd = [state |-> "Disarmed", timer |-> 0]
    /\ stalled = FALSE
    /\ hpc = "idle"
    /\ hev = NoEvent
    /\ calls = <<>>
    /\ iter = <<>>
    /\ setupLog = <<>>

Init ==
    /\ RamInit
    /\ nvs \in [stime: 1..MaxSampleTime, wifiEnable: BOOLEAN,
                brightness: {0}, colorsInverted: {FALSE}]

-----------------------------------------------------------------------------
(* refreshGUIData(): the values handed to gui.setSensorData *)

\* uint16_t mainValue
ToUint16(v) == v % UINT16_MOD

\* seeded fault: the boundary device type 3 takes the CO2 branch
ResolveMainValue_Mut(deviceType, r) ==
    IF deviceType < PM_DEVICE_MAX THEN ToUint16(r.pm25) ELSE ToUint16(r.co2)

ResolveMainValue(deviceType, r) ==
    IF deviceType <= PM_DEVICE_MAX THEN ToUint16(r.pm25) ELSE ToUint16(r.co2)

\* seeded fault: the humidity fallback tests the temperature
ResolveHumi_Mut(r) == IF r.temp = 0 THEN r.co2humi ELSE r.humi

ResolveHumi(r) == IF r.humi = 0 THEN r.co2humi ELSE r.humi

ResolveTemp(r) == IF r.temp = 0 THEN r.co2temp ELSE r.temp

RefreshGUIData(s) ==
    [mainValue  |-> ResolveMainValue(s.deviceType, s.reading),
     humi       |-> ResolveHumi(s.reading),
     temp       |-> ResolveTemp(s.reading),
     deviceType |-> s.deviceType,
     shown      |-> TRUE]

-----------------------------------------------------------------------------
(* ConfigStore (cfg): persist one field to flash; load flash into the     *)
(* in-memory fields (cfg.stime, the wifi flag)                             *)

CfgLoad(flash) == [stime |-> flash.stime, wifiEnable |-> flash.wifiEnable]

CfgWifiEnable(flash, enable) == [flash EXCEPT !.wifiEnable = enable]

CfgSaveBrightness(flash, value) == [flash EXCEPT !.brightness = value]

CfgColorsInvertedEnable(flash, enable) == [flash EXCEPT !.colorsInverted = enable]

CfgSaveSampleTime(flash, time) == [flash EXCEPT !.stime = time]

-----------------------------------------------------------------------------
(* Watchdog: armed by wd.init(), fed by wd.loop() *)

WdArm == [state |-> "Armed", timer |-> 0]

WdFeed(w) == IF w.state = "Armed" THEN [w EXCEPT !.timer = 0] ELSE w

\* one step of the main thread takes one tick
Elapse(w) == IF w.state = "Armed" THEN [w EXCEPT !.timer = @ + 1] ELSE w

-----------------------------------------------------------------------------
(* Order of the statements of setup() and loop() *)

SetupOrder ==
    <<"cfgInit", "guiInit", "setCallbacks", "showWelcome", "startingSensors",
      "batteryInit", "wdInit", "wifiInit", "bleServerInit", "influxDbInit",
      "welcomeStatus", "showMain", "sensorsLoopSetup", "setSampleTime">>

LoopOrder ==
    <<"sensorsLoop", "batteryloop", "bleLoop", "wifiLoop", "influxDbLoop",
      "otaLoop", "wdLoop", "setGUIStatusFlags">>

SetupSteps == {SetupOrder[i] : i \in 1..Len(SetupOrder)}

LoopSteps == {LoopOrder[i] : i \in 1..Len(LoopOrder)}

IndexOf(seq, x) == CHOOSE i \in 1..Len(seq) : seq[i] = x

\* seeded fault: the sensors are detected before the display is initialised
SetupNext_Mut(step) ==
    CASE step = "cfgInit"         -> "startingSensors"
      [] step = "startingSensors" -> "guiInit"
      [] step = "showWelcome"     -> "batteryInit"
      [] OTHER ->
           LET i == IndexOf(SetupOrder, step)
           IN  IF i < Len(SetupOrder) THEN SetupOrder[i + 1] ELSE LoopOrder[1]

\* the statement after `step` in setup(); after the last one loop() starts
SetupNext(step) ==
    LET i == IndexOf(SetupOrder, step)
    IN  IF i < Len(SetupOrder) THEN SetupOrder[i + 1] ELSE LoopOrder[1]

\* seeded fault: the watchdog is fed before the firmware-update check
LoopNext_Mut(step) ==
    CASE step = "influxDbLoop" -> "wdLoop"
      [] step = "wdLoop"       -> "otaLoop"
      [] step = "otaLoop"      -> "setGUIStatusFlags"
      [] OTHER ->
           LET i == IndexOf(LoopOrder, step)
           IN  IF i < Len(LoopOrder) THEN LoopOrder[i + 1] ELSE LoopOrder[1]

\* seeded fault: loop() goes from the firmware-update check straight to
\* the status flags
LoopNext_NoFeed(step) ==
    CASE step = "otaLoop" -> "setGUIStatusFlags"
      [] OTHER ->
           LET i == IndexOf(LoopOrder, step)
           IN  IF i < Len(LoopOrder) THEN LoopOrder[i + 1] ELSE LoopOrder[1]

\* the statement after `step` in loop(); after the last one loop() is
\* called again
LoopNext(step) ==
    LET i == IndexOf(LoopOrder, step)
    IN  IF i < Len(LoopOrder) THEN LoopOrder[i + 1] ELSE LoopOrder[1]

-----------------------------------------------------------------------------
(* The main thread: setup() *)

\* the main thread is alive and its current statement returns in time
Running == ~stalled /\ wd.state # "Expired" /\ wd.timer < WATCHDOG_TIME

HandlerVars == <<hpc, hev, calls>>

\* what every statement of setup() does to the bookkeeping
SetupStep(step) ==
    /\ Running
    /\ pc = step
    /\ pc' = SetupNext(step)
    /\ setupLog' = Append(setupLog, step)
    /\ UNCHANGED <<iter, stalled, HandlerVars, nvs>>

\* cfg.init("canairio")
CfgInit ==
    /\ SetupStep("cfgInit")
    /\ cfg' = CfgLoad(nvs)
    /\ wd' = Elapse(wd)
    /\ UNCHANGED <<sensors, gui, welcome, guiData, guiFlags, wifiConnected>>

\* gui.setBrightness, setWifiMode, setSampleTime (the display's copies of
\* the loaded settings are the display's own state) and gui.displayInit
GuiInit ==
    /\ SetupStep("guiInit")
    /\ gui' = [gui EXCEPT !.screen = "init"]
    /\ wd' = Elapse(wd)
    /\ UNCHANGED <<cfg, sensors, welcome, guiData, guiFlags, wifiConnected>>

\* gui.setCallbacks(new MyGUIUserPreferencesCallbacks())
SetCallbacks ==
    /\ SetupStep("setCallbacks")
    /\ gui' = [gui EXCEPT !.callbacks = TRUE]
    /\ wd' = Elapse(wd)
    /\ UNCHANGED <<cfg, sensors, welcome, guiData, guiFlags, wifiConnected>>

\* gui.showWelcome()
ShowWelcome ==
    /\ SetupStep("showWelcome")
    /\ gui' = [gui EXCEPT !.screen = "welcome"]
    /\ wd' = Elapse(wd)
    /\ UNCHANGED <<cfg, sensors, welcome, guiData, guiFlags, wifiConnected>>

\* seeded fault: a failed detection is not reported on the welcome screen
StartingSensors_Mut ==
    /\ SetupStep("startingSensors")
    /\ \E found \in BOOLEAN, type \in DetectableTypes :
         /\ sensors' = [sensors EXCEPT
                          !.sample_time = SETUP_SAMPLE_TIME,
                          !.configured = found,
                          !.deviceType = IF found THEN type ELSE NoDevice]
         /\ welcome' = welcome \o <<"Detected sensor:", "PM/CO2 device">>
    /\ wd' = Elapse(wd)
    /\ UNCHANGED <<cfg, gui, guiData, guiFlags, wifiConnected>>

\* startingSensors(): sample time 1 for first use, sensors.init, and the
\* detection message; the hardware decides what is detected
StartingSensors ==
    /\ SetupStep("startingSensors")
    /\ \E found \in BOOLEAN, type \in DetectableTypes :
         /\ sensors' = [sensors EXCEPT
                          !.sample_time = SETUP_SAMPLE_TIME,
                          !.configured = found,
                          !.deviceType = IF found THEN type ELSE NoDevice]
         /\ welcome' = welcome \o
                <<"Detected sensor:",
                  IF found THEN "PM/CO2 device" ELSE "Detection !FAILED!">>
    /\ wd' = Elapse(wd)
    /\ UNCHANGED <<cfg, gui, guiData, guiFlags, wifiConnected>>

\* batteryInit()
BatteryInit ==
    /\ SetupStep("batteryInit")
    /\ wd' = Elapse(wd)
    /\ UNCHANGED <<cfg, sensors, gui, welcome, guiData, guiFlags, wifiConnected>>

\* wd.init()
WdInit ==
    /\ SetupStep("wdInit")
    /\ wd' = WdArm
    /\ UNCHANGED <<cfg, sensors, gui, welcome, guiData, guiFlags, wifiConnected>>

\* seeded fault: wifiInit() is called again until WiFi connects
WifiInit_Mut ==
    /\ Running
    /\ pc = "wifiInit"
    /\ setupLog' = Append(setupLog, "wifiInit")
    /\ IF cfg.wifiEnable
         THEN \E c \in BOOLEAN :
                /\ wifiConnected' = c
                /\ pc' = IF c THEN "bleServerInit" ELSE "wifiInit"
         ELSE /\ UNCHANGED wifiConnected
              /\ pc' = "bleServerInit"
    /\ wd' = Elapse(wd)
    /\ UNCHANGED <<iter, stalled, HandlerVars, nvs>>
    /\ UNCHANGED <<cfg, sensors, gui, welcome, guiData, guiFlags>>

\* wifiInit(): connects, or fails to, when WiFi is enabled
WifiInit ==
    /\ SetupStep("wifiInit")
    /\ IF cfg.wifiEnable
         THEN \E c \in BOOLEAN : wifiConnected' = c
         ELSE UNCHANGED wifiConnected
    /\ wd' = Elapse(wd)
    /\ UNCHANGED <<cfg, sensors, gui, welcome, guiData, guiFlags>>

\* seeded fault: starting the config server restarts the watchdog timer
BleServerInit_Mut ==
    /\ SetupStep("bleServerInit")
    /\ welcome' = Append(welcome, "Bluetooth ready.")
    /\ wd' = WdFeed(Elapse(wd))
    /\ UNCHANGED <<cfg, sensors, gui, guiData, guiFlags, wifiConnected>>

\* bleServerInit(); gui.welcomeAddMessage("Bluetooth ready.")
BleServerInit ==
    /\ SetupStep("bleServerInit")
    /\ welcome' = Append(welcome, "Bluetooth ready.")
    /\ wd' = Elapse(wd)
    /\ UNCHANGED <<cfg, sensors, gui, guiData, guiFlags, wifiConnected>>

\* gui.welcomeAddMessage("InfluxDb :.."); influxDbInit()
InfluxDbInit ==
    /\ SetupStep("influxDbInit")
    /\ welcome' = Append(welcome, "InfluxDb")
    /\ wd' = Elapse(wd)
    /\ UNCHANGED <<cfg, sensors, gui, guiData, guiFlags, wifiConnected>>

\* the WiFi, stime, device id, watchdog and SETUP READY lines
WelcomeStatus ==
    /\ SetupStep("welcomeStatus")
    /\ welcome' = welcome \o
           <<IF wifiConnected THEN "WiFi:ssid" ELSE "WiFi: disabled.",
             "stime", "deviceId", "Watchdog", "==SETUP READY==">>
    /\ wd' = Elapse(wd)
    /\ UNCHANGED <<cfg, sensors, gui, guiData, guiFlags, wifiConnected>>

\* gui.showMain(); refreshGUIData()
ShowMain ==
    /\ SetupStep("showMain")
    /\ gui' = [gui EXCEPT !.screen = "main"]
    /\ guiData' = RefreshGUIData(sensors)
    /\ wd' = Elapse(wd)
    /\ UNCHANGED <<cfg, sensors, welcome, guiFlags, wifiConnected>>

\* seeded fault: onSensorDataError also blanks the displayed sensor data
SensorsPoll_Mut ==
    \/ UNCHANGED <<sensors, guiData>>
    \/ /\ sensors' = [sensors EXCEPT !.error = TRUE]
       /\ guiData' = NoGuiData
    \/ \E r \in PollReadings :
         /\ sensors' = [sensors EXCEPT !.reading = r]
         /\ guiData' = RefreshGUIData(sensors')

\* sensors.loop(): no sample due, or a read error reported to
\* onSensorDataError (log only; sensors.error records that the call just
\* made reported one, until the next statement of the main thread), or a
\* reading reported to onSensorDataOk, which calls refreshGUIData()
SensorsPoll ==
    \/ UNCHANGED <<sensors, guiData>>
    \/ /\ sensors' = [sensors EXCEPT !.error = TRUE]
       /\ UNCHANGED guiData
    \/ \E r \in PollReadings :
         /\ sensors' = [sensors EXCEPT !.reading = r]
         /\ guiData' = RefreshGUIData(sensors')

\* sensors.loop() of setup()
SensorsLoopSetup ==
    /\ SetupStep("sensorsLoopSetup")
    /\ SensorsPoll
    /\ wd' = Elapse(wd)
    /\ UNCHANGED <<cfg, gui, welcome, guiFlags, wifiConnected>>

\* sensors.setSampleTime(cfg.stime): the argument is read from cfg.stime
\* before the call is made, and cfg is not protected against the handlers,
\* which may reload it in between; sensors.arg holds the value read
SetSampleTime_Arg ==
    /\ Running
    /\ pc = "setSampleTime"
    /\ sensors.arg = <<>>
    /\ sensors' = [sensors EXCEPT !.arg = <<cfg.stime>>]
    /\ UNCHANGED <<pc, setupLog, iter, stalled, HandlerVars, nvs, wd>>
    /\ UNCHANGED <<cfg, gui, welcome, guiData, guiFlags, wifiConnected>>

\* sensors.setSampleTime(cfg.stime): the call, with the value read
SetSampleTime ==
    /\ SetupStep("setSampleTime")
    /\ sensors.arg # <<>>
    /\ sensors' = [sensors EXCEPT !.sample_time = sensors.arg[1],
                                  !.arg = <<>>, !.error = FALSE]
    /\ wd' = Elapse(wd)
    /\ UNCHANGED <<cfg, gui, welcome, guiData, guiFlags, wifiConnected>>

Setup ==
    \/ CfgInit \/ GuiInit \/ SetCallbacks \/ ShowWelcome \/ StartingSensors
    \/ BatteryInit \/ WdInit \/ WifiInit \/ BleServerInit \/ InfluxDbInit
    \/ WelcomeStatus \/ ShowMain \/ SensorsLoopSetup
    \/ SetSampleTime_Arg \/ SetSampleTime

-----------------------------------------------------------------------------
(* The main thread: loop() *)

\* what every statement of loop() does to the bookkeeping
LoopStep(step) ==
    /\ Running
    /\ pc = step
    /\ pc' = LoopNext(step)
    /\ iter' = IF step = LoopOrder[1] THEN <<step>> ELSE Append(iter, step)
    /\ UNCHANGED <<setupLog, stalled, HandlerVars, nvs, cfg, gui, welcome>>

\* sensors.loop()
SensorsLoop ==
    /\ LoopStep("sensorsLoop")
    /\ SensorsPoll
    /\ wd' = Elapse(wd)
    /\ UNCHANGED <<guiFlags, wifiConnected>>

\* batteryloop()
Batteryloop ==
    /\ LoopStep("batteryloop")
    /\ sensors' = [sensors EXCEPT !.error = FALSE]
    /\ wd' = Elapse(wd)
    /\ UNCHANGED <<guiData, guiFlags, wifiConnected>>

\* bleLoop()
BleLoop ==
    /\ LoopStep("bleLoop")
    /\ wd' = Elapse(wd)
    /\ UNCHANGED <<sensors, guiData, guiFlags, wifiConnected>>

\* wifiLoop(): reconnects, or fails to, when WiFi is enabled and down
WifiLoop ==
    /\ LoopStep("wifiLoop")
    /\ IF cfg.wifiEnable /\ ~wifiConnected
         THEN \E c \in BOOLEAN : wifiConnected' = c
         ELSE UNCHANGED wifiConnected
    /\ wd' = Elapse(wd)
    /\ UNCHANGED <<sensors, guiData, guiFlags>>

\* influxDbLoop()
InfluxDbLoop ==
    /\ LoopStep("influxDbLoop")
    /\ wd' = Elapse(wd)
    /\ UNCHANGED <<sensors, guiData, guiFlags, wifiConnected>>

\* seeded fault: the firmware-update check switches the watchdog off
OtaLoop_Mut ==
    /\ LoopStep("otaLoop")
    /\ wd' = [state |-> "Disarmed", timer |-> 0]
    /\ UNCHANGED <<sensors, guiData, guiFlags, wifiConnected>>

\* otaLoop()
OtaLoop ==
    /\ LoopStep("otaLoop")
    /\ wd' = Elapse(wd)
    /\ UNCHANGED <<sensors, guiData, guiFlags, wifiConnected>>

\* seeded fault: wd.loop() does not restart the timer
WdLoop_Mut ==
    /\ LoopStep("wdLoop")
    /\ wd' = Elapse(wd)
    /\ UNCHANGED <<sensors, guiData, guiFlags, wifiConnected>>

\* wd.loop()
WdLoop ==
    /\ LoopStep("wdLoop")
    /\ wd' = WdFeed(Elapse(wd))
    /\ UNCHANGED <<sensors, guiData, guiFlags, wifiConnected>>

\* seeded fault: the sensors flag reports whether a sensor was detected
SetGUIStatusFlags_Mut ==
    /\ LoopStep("setGUIStatusFlags")
    /\ \E ble \in BOOLEAN :
         guiFlags' = [wifi |-> wifiConnected, sensors |-> sensors.configured,
                      ble |-> ble, shown |-> TRUE]
    /\ wd' = Elapse(wd)
    /\ UNCHANGED <<sensors, guiData, wifiConnected>>

\* gui.setGUIStatusFlags(WiFi.isConnected(), true, bleIsConnected())
SetGUIStatusFlags ==
    /\ LoopStep("setGUIStatusFlags")
    /\ \E ble \in BOOLEAN :
         guiFlags' = [wifi |-> wifiConnected, sensors |-> TRUE,
                      ble |-> ble, shown |-> TRUE]
    /\ wd' = Elapse(wd)
    /\ UNCHANGED <<sensors, guiData, wifiConnected>>

Loop ==
    \/ SensorsLoop \/ Batteryloop \/ BleLoop \/ WifiLoop
    \/ InfluxDbLoop \/ OtaLoop \/ WdLoop \/ SetGUIStatusFlags

-----------------------------------------------------------------------------
(* MyGUIUserPreferencesCallbacks: one handler at a time, in the GUI's     *)
(* context; each statement is one step                                     *)

HandlerEntry(ev) ==
    CASE ev.type = "WifiToggled"           -> "wifi_save"
      [] ev.type = "BrightnessChanged"     -> "bright_save"
      [] ev.type = "ColorInversionToggled" -> "colors_save"
      [] ev.type = "SampleTimeChanged"     -> "st_guard"
      [] ev.type = "CalibrationRequested"  -> "cal_set"

\* what every handler statement leaves alone
HandlerStep(at) ==
    /\ wd.state # "Expired"
    /\ hpc = at
    /\ UNCHANGED <<pc, gui, welcome, guiData, guiFlags, wd, stalled,
                   hev, iter, setupLog>>

\* the GUI delivers a preference change to the registered callbacks
Deliver ==
    /\ wd.state # "Expired"
    /\ gui.callbacks
    /\ hpc = "idle"
    /\ \E ev \in Events :
         /\ hpc' = HandlerEntry(ev)
         /\ hev' = ev
         /\ calls' = <<>>
    /\ UNCHANGED <<nvs, cfg, sensors, wifiConnected, pc, gui, welcome, guiData,
                   guiFlags, wd, stalled, iter, setupLog>>

\* onWifiMode: cfg.wifiEnable(enable)
OnWifiMode_Save ==
    /\ HandlerStep("wifi_save")
    /\ nvs' = CfgWifiEnable(nvs, hev.arg = 1)
    /\ calls' = Append(calls, Call("wifiEnable", hev.arg))
    /\ hpc' = "wifi_reload"
    /\ UNCHANGED <<cfg, sensors, wifiConnected>>

\* onWifiMode: cfg.reload()
OnWifiMode_Reload ==
    /\ HandlerStep("wifi_reload")
    /\ cfg' = CfgLoad(nvs)
    /\ calls' = Append(calls, Call("reload", 0))
    /\ hpc' = "wifi_stop"
    /\ UNCHANGED <<nvs, sensors, wifiConnected>>

\* seeded fault: wifiStop() whatever `enable` is
OnWifiMode_Stop_Mut ==
    /\ HandlerStep("wifi_stop")
    /\ wifiConnected' = FALSE
    /\ calls' = Append(calls, Call("wifiStop", 0))
    /\ hpc' = "done"
    /\ UNCHANGED <<nvs, cfg, sensors>>

\* onWifiMode: if (!enable) wifiStop()
OnWifiMode_Stop ==
    /\ HandlerStep("wifi_stop")
    /\ IF hev.arg # 1
         THEN /\ wifiConnected' = FALSE
              /\ calls' = Append(calls, Call("wifiStop", 0))
         ELSE UNCHANGED <<wifiConnected, calls>>
    /\ hpc' = "done"
    /\ UNCHANGED <<nvs, cfg, sensors>>

\* onBrightness: cfg.saveBrightness(value)
OnBrightness ==
    /\ HandlerStep("bright_save")
    /\ nvs' = CfgSaveBrightness(nvs, hev.arg)
    /\ calls' = Append(calls, Call("saveBrightness", hev.arg))
    /\ hpc' = "done"
    /\ UNCHANGED <<cfg, sensors, wifiConnected>>

\* onColorsInverted: cfg.colorsInvertedEnable(enable)
OnColorsInverted ==
    /\ HandlerStep("colors_save")
    /\ nvs' = CfgColorsInvertedEnable(nvs, hev.arg = 1)
    /\ calls' = Append(calls, Call("colorsInvertedEnable", hev.arg))
    /\ hpc' = "done"
    /\ UNCHANGED <<cfg, sensors, wifiConnected>>

\* seeded fault: the guard compares with the configured sample time
OnSampleTime_Guard_Mut ==
    /\ HandlerStep("st_guard")
    /\ hpc' = IF cfg.stime # hev.arg THEN "st_save" ELSE "done"
    /\ UNCHANGED <<nvs, cfg, sensors, wifiConnected, calls>>

\* onSampleTime: if (sensors.sample_time != time)
OnSampleTime_Guard ==
    /\ HandlerStep("st_guard")
    /\ hpc' = IF sensors.sample_time # hev.arg THEN "st_save" ELSE "done"
    /\ UNCHANGED <<nvs, cfg, sensors, wifiConnected, calls>>

\* onSampleTime: cfg.saveSampleTime(time)
OnSampleTime_Save ==
    /\ HandlerStep("st_save")
    /\ nvs' = CfgSaveSampleTime(nvs, hev.arg)
    /\ calls' = Append(calls, Call("saveSampleTime", hev.arg))
    /\ hpc' = "st_reload"
    /\ UNCHANGED <<cfg, sensors, wifiConnected>>

\* seeded fault: the saved sample time is not loaded back into cfg
OnSampleTime_Reload_Mut ==
    /\ HandlerStep("st_reload")
    /\ calls' = Append(calls, Call("reload", 0))
    /\ hpc' = "st_refresh"
    /\ UNCHANGED <<nvs, cfg, sensors, wifiConnected>>

\* onSampleTime: cfg.reload()
OnSampleTime_Reload ==
    /\ HandlerStep("st_reload")
    /\ cfg' = CfgLoad(nvs)
    /\ calls' = Append(calls, Call("reload", 0))
    /\ hpc' = "st_refresh"
    /\ UNCHANGED <<nvs, sensors, wifiConnected>>

\* onSampleTime: bleServerConfigRefresh()
OnSampleTime_Refresh ==
    /\ HandlerStep("st_refresh")
    /\ calls' = Append(calls, Call("bleServerConfigRefresh", 0))
    /\ hpc' = "st_set"
    /\ UNCHANGED <<nvs, cfg, sensors, wifiConnected>>

\* onSampleTime: sensors.setSampleTime(cfg.stime)
OnSampleTime_Set ==
    /\ HandlerStep("st_set")
    /\ sensors' = [sensors EXCEPT !.sample_time = cfg.stime]
    /\ calls' = Append(calls, Call("setSampleTime", cfg.stime))
    /\ hpc' = "done"
    /\ UNCHANGED <<nvs, cfg, wifiConnected>>

\* seeded fault: the calibration is also persisted as a preference
OnCalibrationReady_Mut ==
    /\ HandlerStep("cal_set")
    /\ sensors' = [sensors EXCEPT !.recal = CO2_RECAL_FACTOR]
    /\ nvs' = CfgSaveBrightness(nvs, 1)
    /\ calls' = Append(calls, Call("setCO2RecalibrationFactor", CO2_RECAL_FACTOR))
    /\ hpc' = "done"
    /\ UNCHANGED <<cfg, wifiConnected>>

\* onCalibrationReady: sensors.setCO2RecalibrationFactor(418)
OnCalibrationReady ==
    /\ HandlerStep("cal_set")
    /\ sensors' = [sensors EXCEPT !.recal = CO2_RECAL_FACTOR]
    /\ calls' = Append(calls, Call("setCO2RecalibrationFactor", CO2_RECAL_FACTOR))
    /\ hpc' = "done"
    /\ UNCHANGED <<nvs, cfg, wifiConnected>>

\* the handler returns to the GUI
HandlerReturn ==
    /\ wd.state # "Expired"
    /\ hpc = "done"
    /\ hpc' = "idle"
    /\ hev' = NoEvent
    /\ calls' = <<>>
    /\ UNCHANGED <<pc, nvs, cfg, sensors, gui, welcome, guiData, guiFlags,
                   wifiConnected, wd, stalled, iter, setupLog>>

Handler ==
    \/ Deliver
    \/ OnWifiMode_Save \/ OnWifiMode_Reload \/ OnWifiMode_Stop
    \/ OnBrightness \/ OnColorsInverted
    \/ OnSampleTime_Guard \/ OnSampleTime_Save \/ OnSampleTime_Reload
    \/ OnSampleTime_Refresh \/ OnSampleTime_Set
    \/ OnCalibrationReady
    \/ HandlerReturn

-----------------------------------------------------------------------------
(* Time, the watchdog timer and the reset *)

\* the statement at pc blocks and never returns
Stall ==
    /\ Running
    /\ stalled' = TRUE
    /\ UNCHANGED <<pc, nvs, cfg, sensors, gui, welcome, guiData, guiFlags,
                   wifiConnected, wd, HandlerVars, iter, setupLog>>

\* the timer reaches the timeout without a feed (at once when the steps
\* have used the timeout up, after the rest of it when the main thread is
\* blocked): the watchdog expires and resets the chip, which clears RAM
\* and keeps flash
WdExpire ==
    /\ wd.state = "Armed"
    /\ stalled \/ wd.timer >= WATCHDOG_TIME
    /\ wd' = [state |-> "Expired", timer |-> WATCHDOG_TIME]
    /\ pc' = "reset"
    /\ cfg' = UnloadedCfg
    /\ sensors' = [sample_time |-> SETUP_SAMPLE_TIME, deviceType |-> NoDevice,
                   configured |-> FALSE, reading |-> ZeroReading, recal |-> 0,
                   error |-> FALSE, arg |-> <<>>]
    /\ gui' = InitGui
    /\ welcome' = <<>>
    /\ guiData' = NoGuiData
    /\ guiFlags' = NoFlags
    /\ wifiConnected' = FALSE
    /\ hpc' = "idle"
    /\ hev' = NoEvent
    /\ calls' = <<>>
    /\ iter' = <<>>
    /\ setupLog' = <<>>
    /\ UNCHANGED <<nvs, stalled>>

\* the chip starts again: setup() runs from its first statement
Reboot ==
    /\ wd.state = "Expired"
    /\ pc = "reset"
    /\ pc' = "cfgInit"
    /\ wd' = [state |-> "Disarmed", timer |-> 0]
    /\ stalled' = FALSE
    /\ \E t \in 1..MaxSampleTime :
         sensors' = [sensors EXCEPT !.sample_time = t]
    /\ UNCHANGED <<nvs, cfg, gui, welcome, guiData, guiFlags, wifiConnected,
                   HandlerVars, iter, setupLog>>

Next ==
    \/ Setup
    \/ Loop
    \/ Handler
    \/ Stall
    \/ WdExpire
    \/ Reboot

Spec == Init /\ [][Next]_vars

\* the device when every statement of setup() and loop() returns: the main
\* thread is never blocked for good, and the Arduino core calls loop()
\* again each time it returns
LiveNext ==
    \/ Setup
    \/ Loop
    \/ Handler

LiveSpec ==
    /\ Init
    /\ [][LiveNext]_vars
    /\ WF_vars(Setup)
    /\ WF_vars(SensorsLoop) /\ WF_vars(Batteryloop) /\ WF_vars(BleLoop)
    /\ WF_vars(WifiLoop) /\ WF_vars(InfluxDbLoop) /\ WF_vars(OtaLoop)
    /\ WF_vars(WdLoop) /\ WF_vars(SetGUIStatusFlags)

-----------------------------------------------------------------------------
(* refreshGUIData() on its own: every device type and reading *)

InitResolve ==
    /\ pc = "showMain"
    /\ nvs = [stime |-> SETUP_SAMPLE_TIME, wifiEnable |-> FALSE,
              brightness |-> 0, colorsInverted |-> FALSE]
    /\ cfg = CfgLoad(nvs)
    /\ \E type \in {NoDevice} \cup DeviceTypes, r \in AllReadings :
         sensors = [sample_time |-> SETUP_SAMPLE_TIME, deviceType |-> type,
                    configured |-> (type # NoDevice), reading |-> r, recal |-> 0,
                    error |-> FALSE, arg |-> <<>>]
    /\ gui = [callbacks |-> TRUE, screen |-> "welcome"]
    /\ welcome = <<>>
    /\ guiData = NoGuiData
    /\ guiFlags = NoFlags
    /\ wifiConnected = FALSE
    /\ wd = WdArm
    /\ stalled = FALSE
    /\ hpc = "idle"
    /\ hev = NoEvent
    /\ calls = <<>>
    /\ iter = <<>>
    /\ setupLog = <<>>

\* refreshGUIData() on the current reading
ResolveApply ==
    /\ guiData' = RefreshGUIData(sensors)
    /\ UNCHANGED <<pc, nvs, cfg, sensors, gui, welcome, guiFlags, wifiConnected,
                   wd, stalled, HandlerVars, iter, setupLog>>

\* onSensorDataOk(): a new reading, then refreshGUIData()
ResolveData ==
    /\ \E r \in AllReadings : sensors' = [sensors EXCEPT !.reading = r]
    /\ guiData' = RefreshGUIData(sensors')
    /\ UNCHANGED <<pc, nvs, cfg, gui, welcome, guiFlags, wifiConnected,
                   wd, stalled, HandlerVars, iter, setupLog>>

NextResolve == ResolveApply \/ ResolveData

SpecResolve == InitResolve /\ [][NextResolve]_vars

-----------------------------------------------------------------------------
(* Properties *)

Range(seq) == {seq[i] : i \in 1..Len(seq)}

\* a step of the running device other than the reset
Alive == wd.state # "Expired" /\ wd'.state # "Expired"

(* C1: handling WifiToggled(enable) persists the wifi flag, then reloads   *)
(* the configuration, then (only for enable = false) calls wifiStop once:  *)
(* at every point of the handler the calls made so far are exactly that    *)
(* prefix, and wifiStop is never among them for enable = true.             *)
C1_WifiToggledOrder ==
    hev.type = "WifiToggled" =>
        /\ hpc \in {"wifi_save", "wifi_reload", "wifi_stop", "done"}
        /\ hpc = "wifi_save" => calls = <<>>
        /\ hpc = "wifi_reload" => calls = <<Call("wifiEnable", hev.arg)>>
        /\ hpc = "wifi_stop" =>
             calls = <<Call("wifiEnable", hev.arg), Call("reload", 0)>>
        /\ hpc = "done" /\ hev.arg = 0 =>
             calls = <<Call("wifiEnable", 0), Call("reload", 0), Call("wifiStop", 0)>>
        /\ hpc = "done" /\ hev.arg = 1 =>
             calls = <<Call("wifiEnable", 1), Call("reload", 0)>>

C1_Witness ==
    /\ hev = [type |-> "WifiToggled", arg |-> 0]
    /\ hpc = "done"
    /\ Len(calls) = 3
    /\ pc \in LoopSteps

(* C2: a SampleTimeChanged(time) whose time equals the sensors' current    *)
(* sample time makes the handler finish with no call made (no              *)
(* saveSampleTime, reload, config-server refresh or setSampleTime) and     *)
(* with every variable outside the handler unchanged.                      *)
C2_SampleTimeUnchangedNoEffect ==
    [][ ( /\ Alive
          /\ hev.type = "SampleTimeChanged"
          /\ hpc = "st_guard" /\ hpc' # "st_guard"
          /\ hev.arg = sensors.sample_time )
        => ( /\ hpc' = "done"
             /\ calls' = <<>>
             /\ UNCHANGED <<pc, nvs, cfg, sensors, gui, welcome, guiData,
                            guiFlags, wifiConnected, wd, stalled, iter, setupLog>> )
      ]_vars

C2_Witness ==
    /\ hev.type = "SampleTimeChanged"
    /\ hpc = "done"
    /\ calls = <<>>
    /\ hev.arg = sensors.sample_time
    /\ hev.arg # nvs.stime

(* C3: a SampleTimeChanged(time) whose time differs from the sensors'      *)
(* current sample time makes the handler call, in this order and once      *)
(* each, saveSampleTime(time), reload, the config-server refresh and       *)
(* sensors.setSampleTime(time).                                            *)
C3_SampleTimeChangeOrder ==
    /\ [] ( hev.type = "SampleTimeChanged" =>
              LET t == hev.arg
                  full == <<Call("saveSampleTime", t), Call("reload", 0),
                            Call("bleServerConfigRefresh", 0), Call("setSampleTime", t)>>
              IN  /\ hpc \in {"st_guard", "st_save", "st_reload", "st_refresh",
                              "st_set", "done"}
                  /\ hpc \in {"st_guard", "st_save"} => calls = <<>>
                  /\ hpc = "st_reload" => calls = SubSeq(full, 1, 1)
                  /\ hpc = "st_refresh" => calls = SubSeq(full, 1, 2)
                  /\ hpc = "st_set" => calls = SubSeq(full, 1, 3)
                  /\ hpc = "done" => calls \in {<<>>, full} )
    /\ [][ ( /\ Alive
             /\ hev.type = "SampleTimeChanged"
             /\ hpc = "st_guard" /\ hpc' # "st_guard"
             /\ hev.arg # sensors.sample_time )
           => hpc' = "st_save" ]_vars
    /\ [][ ( /\ Alive
             /\ hpc = "st_set" /\ hpc' # "st_set" )
           => ( /\ hpc' = "done"
                /\ sensors'.sample_time = hev.arg
                /\ nvs.stime = hev.arg ) ]_vars

C3_Witness ==
    /\ hev.type = "SampleTimeChanged"
    /\ hpc = "done"
    /\ Len(calls) = 4
    /\ sensors.sample_time = hev.arg

(* C4: a step of the main thread that never returns lets the armed        *)
(* watchdog expire, and the expiry is followed by exactly one reset;       *)
(* while every step returns, the feed of each iteration keeps the timer    *)
(* below the timeout: the watchdog stays armed and no reset occurs.        *)
C4_WatchdogExpiry ==
    /\ [] ( (wd.state = "Armed" /\ stalled) => ENABLED WdExpire )
    /\ [] ( (wd.state = "Armed" /\ ~stalled) =>
               (wd.timer < WATCHDOG_TIME /\ ~ENABLED WdExpire) )
    /\ [] ( pc \in LoopSteps => wd.state = "Armed" )
    /\ [][ (wd'.state = "Expired" /\ wd.state # "Expired")
           => (wd.state = "Armed" /\ stalled /\ pc' = "reset") ]_vars
    /\ [][ wd.state = "Expired"
           => (wd'.state = "Disarmed" /\ pc = "reset" /\ pc' = "cfgInit") ]_vars
    /\ [][ (pc' = "cfgInit" /\ pc # "cfgInit") => wd.state = "Expired" ]_vars

C4_Witness ==
    /\ wd.state = "Expired"
    /\ stalled
    /\ pc = "reset"

(* C5: after a failed sensor detection the failure message is on the     *)
(* welcome screen, every later statement of setup() can still run, the     *)
(* loop is reached with all of setup() executed in order, and the watchdog *)
(* cannot expire unless a step blocks.                                     *)
C5_DetectionFailureNonFatal ==
    ("startingSensors" \in Range(setupLog) /\ ~sensors.configured) =>
        /\ "Detection !FAILED!" \in Range(welcome)
        /\ (pc \in SetupSteps /\ ~stalled) => ENABLED Setup
        /\ pc \in LoopSteps =>
             /\ setupLog = <<"cfgInit", "guiInit", "setCallbacks", "showWelcome",
                             "startingSensors", "batteryInit", "wdInit", "wifiInit",
                             "bleServerInit", "influxDbInit", "welcomeStatus",
                             "showMain", "sensorsLoopSetup", "setSampleTime">>
             /\ wd.state = "Armed"
        /\ ~stalled => ~ENABLED WdExpire

C5_Witness ==
    /\ "startingSensors" \in Range(setupLog)
    /\ ~sensors.configured
    /\ pc = "sensorsLoop"
    /\ Len(iter) = 8

(* C6: the main value shown is the pm25 reading for device types 0..3 and *)
(* the co2 reading for device types above 3, whatever the other inputs.    *)
C6_MainValueByDeviceType ==
    guiData.shown =>
        /\ sensors.deviceType \in 0..3 => guiData.mainValue = sensors.reading.pm25
        /\ sensors.deviceType > 3 => guiData.mainValue = sensors.reading.co2

C6_Witness ==
    /\ guiData.shown
    /\ sensors.deviceType = 3
    /\ guiData.mainValue = 35
    /\ sensors.reading.co2 = 900

(* C7: the humidity shown is the CO2-derived humidity when the primary    *)
(* humidity is 0 and the primary humidity otherwise; the temperature       *)
(* follows the same rule on its own inputs.                                *)
C7_HumidityTemperatureFallback ==
    guiData.shown =>
        /\ sensors.reading.humi = 0 => guiData.humi = sensors.reading.co2humi
        /\ sensors.reading.humi # 0 => guiData.humi = sensors.reading.humi
        /\ sensors.reading.temp = 0 => guiData.temp = sensors.reading.co2temp
        /\ sensors.reading.temp # 0 => guiData.temp = sensors.reading.temp

C7_Witness ==
    /\ guiData.shown
    /\ sensors.reading.humi = 0
    /\ sensors.reading.temp # 0
    /\ guiData.humi = 482
    /\ guiData.temp = 250

(* C8: handling CalibrationRequested makes exactly one call,               *)
(* setCO2RecalibrationFactor(418), and leaves the persisted and the loaded *)
(* configuration unchanged.                                                *)
C8_CalibrationConstant ==
    /\ [] ( hev.type = "CalibrationRequested" =>
              \/ hpc = "cal_set" /\ calls = <<>>
              \/ /\ hpc = "done"
                 /\ calls = <<Call("setCO2RecalibrationFactor", 418)>>
                 /\ sensors.recal = 418 )
    /\ [][ (Alive /\ hpc = "cal_set" /\ hpc' # "cal_set")
           => (hpc' = "done" /\ UNCHANGED <<nvs, cfg>>) ]_vars

C8_Witness ==
    /\ hev.type = "CalibrationRequested"
    /\ hpc = "done"
    /\ sensors.recal = 418
    /\ sensors.reading # ZeroReading
    /\ sensors.deviceType = 4

(* C9: every iteration of loop() runs sensor poll, battery poll,          *)
(* config-server notify, WiFi check, cloud publish, firmware-update check, *)
(* watchdog feed and status-flags update, in this order, each once; the    *)
(* feed comes right before the status-flags update.                        *)
C9_LoopOrderFixed ==
    LET order == <<"sensorsLoop", "batteryloop", "bleLoop", "wifiLoop",
                   "influxDbLoop", "otaLoop", "wdLoop", "setGUIStatusFlags">>
    IN  pc \in LoopSteps =>
          /\ \E i \in 1..8 :
               /\ pc = order[i]
               /\ \/ iter = SubSeq(order, 1, i - 1)
                  \/ i = 1 /\ iter = order
          /\ pc = "setGUIStatusFlags" => wd.timer = 0

C9_Witness ==
    /\ pc = "sensorsLoop"
    /\ Len(iter) = 8
    /\ iter[7] = "wdLoop"

(* C10: no statement of loop() runs while a preference change is partly    *)
(* applied (some of the handler's mutations made, others still to come).   *)
HandlerPartial ==
    \/ hpc \in {"wifi_reload", "st_reload", "st_refresh", "st_set"}
    \/ hpc = "wifi_stop" /\ hev.arg = 0

C10_NoPartialChangeObserved ==
    [][ (pc \in LoopSteps /\ pc' \in LoopSteps /\ pc' # pc) => ~HandlerPartial ]_vars

(* C11: the configured sample time (persisted, and loaded once cfg.init    *)
(* has run) is greater than 0 in every state.                              *)
C11_SampleTimePositive ==
    /\ nvs.stime > 0
    /\ "cfgInit" \in Range(setupLog) => cfg.stime > 0


\* the startup phase the main thread is in, read from the statement it is at:
\* 0 Uninitialized, 1 ConfigLoaded, 2 DisplayReady, 3 SensorsDetecting,
\* 4 SensorsReady or SensorsFailed, 5 PeripheralsInit, 6 Ready
Phase(at) ==
    CASE at = "cfgInit"                        -> 0
      [] at = "guiInit"                        -> 1
      [] at \in {"setCallbacks", "showWelcome"} -> 2
      [] at = "startingSensors"                -> 3
      [] at = "batteryInit"                    -> 4
      [] at \in {"wdInit", "wifiInit", "bleServerInit", "influxDbInit",
                 "welcomeStatus", "showMain", "sensorsLoopSetup",
                 "setSampleTime"}              -> 5
      [] OTHER                                 -> 6

(* C12: within one boot the startup phases follow one another in the order *)
(* Uninitialized, ConfigLoaded, DisplayReady, SensorsDetecting,            *)
(* SensorsReady or SensorsFailed, PeripheralsInit, Ready: a step keeps the *)
(* phase or enters the next one, never an earlier or a later one; the      *)
(* configuration is loaded before the display is initialised and before    *)
(* the sensors are detected; each statement of setup() has run at most     *)
(* once; and no statement of loop() has run before all of setup() has.     *)
C12_StartupPhasesOrdered ==
    /\ [][ Alive => Phase(pc') \in {Phase(pc), Phase(pc) + 1} ]_vars
    /\ [][ (Alive /\ Phase(pc) = 6) => Phase(pc') = 6 ]_vars
    /\ [] ( \A i, j \in 1..Len(setupLog) :
              /\ i # j => setupLog[i] # setupLog[j]
              /\ (setupLog[i] = "cfgInit" /\ setupLog[j] = "guiInit") => i < j
              /\ (setupLog[i] = "cfgInit" /\ setupLog[j] = "startingSensors") => i < j
              /\ (setupLog[i] = "guiInit" /\ setupLog[j] = "startingSensors") => i < j )
    /\ [] ( pc \in SetupSteps => (iter = <<>> /\ pc \notin Range(setupLog)) )
    /\ [] ( iter # <<>> => (Phase(pc) = 6 /\ Len(setupLog) = 14) )
    /\ [] ( (pc \in SetupSteps \cup LoopSteps /\ Phase(pc) >= 1) =>
              "cfgInit" \in Range(setupLog) )
    /\ [] ( (pc \in SetupSteps \cup LoopSteps /\ Phase(pc) >= 4) =>
              {"guiInit", "startingSensors"} \subseteq Range(setupLog) )

C12_Witness ==
    /\ pc = "sensorsLoop"
    /\ iter = <<>>
    /\ Len(setupLog) = 14
    /\ sensors.configured

\* how many times `step` has run
Count(log, step) == Cardinality({i \in 1..Len(log) : log[i] = step})

(* C13: batteryInit, wd.init, wifiInit, bleServerInit and influxDbInit     *)
(* have each run at most once during setup() and exactly once when loop()  *)
(* is reached; whatever a statement of setup() did (WiFi enabled but not   *)
(* connected, sensors not detected), the next statement can run unless the *)
(* current one never returns; and WiFi failing to connect in wifiInit      *)
(* leaves the main thread at bleServerInit.                                *)
C13_PeripheralsInitIndependent ==
    /\ [] ( \A p \in {"batteryInit", "wdInit", "wifiInit", "bleServerInit",
                       "influxDbInit"} :
              /\ Count(setupLog, p) <= 1
              /\ pc \in LoopSteps => Count(setupLog, p) = 1 )
    /\ [] ( (pc \in SetupSteps /\ ~stalled) => ENABLED Setup )
    /\ [][ (Alive /\ pc = "wifiInit" /\ pc' # pc)
           => pc' = "bleServerInit" ]_vars
    /\ [] ( pc \in {"welcomeStatus", "showMain", "sensorsLoopSetup",
                    "setSampleTime"} \cup LoopSteps =>
              SubSeq(setupLog, 6, 10) =
                  <<"batteryInit", "wdInit", "wifiInit", "bleServerInit",
                    "influxDbInit">> )

C13_Witness ==
    /\ pc = "sensorsLoop"
    /\ iter = <<>>
    /\ hpc = "idle"
    /\ cfg.wifiEnable
    /\ ~wifiConnected
    /\ "WiFi: disabled." \in Range(welcome)

(* C14: the reset is reached only by the expiry of the armed watchdog; the *)
(* watchdog is armed by wd.init() of setup() and by nothing else, and once *)
(* armed it stays armed until it expires (no statement of setup() or       *)
(* loop() and no preference handler disarms it); after the reset setup()   *)
(* starts again at cfg.init with nothing of the previous boot left in RAM. *)
C14_ResetOnlyByWatchdog ==
    /\ [][ (pc' = "reset" /\ pc # "reset")
           => (wd.state = "Armed" /\ wd'.state = "Expired") ]_vars
    /\ [][ wd.state = "Armed" => wd'.state \in {"Armed", "Expired"} ]_vars
    /\ [][ (wd.state # "Armed" /\ wd'.state = "Armed")
           => (pc = "wdInit" /\ pc' = "wifiInit" /\ wd.state = "Disarmed") ]_vars
    /\ [] ( (wd.state = "Armed") = ("wdInit" \in Range(setupLog)) )
    /\ [] ( (pc = "reset") = (wd.state = "Expired") )
    /\ [][ pc = "reset"
           => ( /\ pc' = "cfgInit"
                /\ wd'.state = "Disarmed"
                /\ setupLog' = <<>> /\ iter' = <<>>
                /\ cfg' = UnloadedCfg
                /\ ~gui'.callbacks
                /\ ~stalled' ) ]_vars
    /\ [] ( (pc = "cfgInit" /\ ~stalled) => ENABLED CfgInit )
    /\ [] ( setupLog # <<>> => setupLog[1] = "cfgInit" )

C14_Witness ==
    /\ pc = "guiInit"
    /\ setupLog = <<"cfgInit">>
    /\ wd.state = "Disarmed"
    /\ nvs.stime = 0
    /\ cfg.stime = nvs.stime

(* C15: when every statement returns, wd.loop() feeds the watchdog         *)
(* infinitely often, and infinitely often an iteration of loop() has just  *)
(* completed in which each of the eight statements has run, in order (so   *)
(* each of them runs infinitely often); the feed comes once in every       *)
(* iteration and the timer never reaches the timeout.                      *)
C15_EveryStepInfinitelyOften ==
    /\ []<><<WdLoop>>_vars
    /\ []<>( /\ pc = "sensorsLoop"
             /\ iter = <<"sensorsLoop", "batteryloop", "bleLoop", "wifiLoop",
                         "influxDbLoop", "otaLoop", "wdLoop", "setGUIStatusFlags">> )
    /\ [] ( Len(iter) = 8 => Count(iter, "wdLoop") = 1 )
    /\ [] ( wd.state = "Armed" => wd.timer < WATCHDOG_TIME )

C15_Witness ==
    /\ pc = "setGUIStatusFlags"
    /\ Len(iter) = 7
    /\ wd.timer = 0
    /\ guiFlags.shown
    /\ hpc = "st_refresh"

(* C16: a read error that sensors.loop() reports to onSensorDataError is   *)
(* only logged: the step changes no persisted or loaded configuration, no  *)
(* sensor setting or reading, no displayed data or flag, and does not      *)
(* reset; the main thread goes on to the statement after sensors.loop(),   *)
(* and every later statement of the iteration, wd.loop() included, can     *)
(* run unless a statement never returns.                                   *)
C16_SensorErrorOnlyLogged ==
    /\ [][ (Alive /\ sensors'.error /\ ~sensors.error)
           => ( /\ pc \in {"sensorsLoop", "sensorsLoopSetup"}
                /\ pc' = IF pc = "sensorsLoop" THEN "batteryloop" ELSE "setSampleTime"
                /\ sensors' = [sensors EXCEPT !.error = TRUE]
                /\ wd'.state = wd.state
                /\ UNCHANGED <<nvs, cfg, gui, welcome, guiData, guiFlags,
                               wifiConnected, stalled, hpc, hev, calls>> ) ]_vars
    /\ [] ( sensors.error =>
              /\ pc \in {"batteryloop", "setSampleTime"}
              /\ pc = "batteryloop" => iter = <<"sensorsLoop">>
              /\ wd.state = "Armed" /\ wd.timer < WATCHDOG_TIME )
    /\ [] ( (pc \in LoopSteps /\ ~stalled) => ENABLED Loop )
    /\ [] ( (pc = "wdLoop" /\ ~stalled) => ENABLED WdLoop )

C16_Witness ==
    /\ sensors.error
    /\ pc = "batteryloop"
    /\ guiData.shown
    /\ guiData.mainValue = 900
    /\ ~stalled

(* C17: whenever the main thread is in loop() and no preference handler    *)
(* is in progress, the sensors' sample time equals the configuration's     *)
(* (loaded and persisted) sample time.                                     *)
C17_SampleTimeInSync ==
    (pc \in LoopSteps /\ hpc = "idle") =>
        /\ sensors.sample_time = cfg.stime
        /\ cfg.stime = nvs.stime

(* C18: when the handler of a SampleTimeChanged(time) has returned control *)
(* and setup() has completed, the configuration's sample time is `time`.   *)
(* (A handler that made no call left the configuration as it was when the  *)
(* event was delivered, so a difference then is a difference at delivery.) *)
C18_NoSampleTimeChangeLost ==
    (hev.type = "SampleTimeChanged" /\ hpc = "done" /\ pc \in LoopSteps) =>
        cfg.stime = hev.arg

(* C19: the sensors flag handed to the display by loop() is true in every  *)
(* iteration, whether or not a sensor was detected and whether or not the  *)
(* iteration's sensors.loop() reported a read error; the wifi flag is the  *)
(* WiFi connection state and the ble flag the config-server's.             *)
C19_SensorsFlagAlwaysTrue ==
    /\ [] ( guiFlags.shown => guiFlags.sensors )
    /\ [][ (Alive /\ pc = "setGUIStatusFlags" /\ pc' # pc)
           => ( /\ guiFlags'.shown
                /\ guiFlags'.sensors
                /\ guiFlags'.wifi = wifiConnected ) ]_vars
    /\ [][ (Alive /\ guiFlags' # guiFlags) => pc = "setGUIStatusFlags" ]_vars
    /\ [] ( pc = "setGUIStatusFlags" /\ ~stalled =>
              /\ ENABLED (SetGUIStatusFlags /\ guiFlags'.ble)
              /\ ENABLED (SetGUIStatusFlags /\ ~guiFlags'.ble) )

C19_Witness ==
    /\ guiFlags.shown
    /\ guiFlags.sensors
    /\ ~sensors.configured
    /\ "Detection !FAILED!" \in Range(welcome)
    /\ guiFlags.wifi
    /\ ~guiFlags.ble
    /\ pc = "sensorsLoop"

(* C20: setup() never feeds the watchdog: the timer is restarted only by   *)
(* wd.loop(), after the six statements of loop() before it; the watchdog   *)
(* is armed when wifiInit, bleServerInit and influxDbInit run, and from    *)
(* then on the timer counts every statement of setup(); so a statement of  *)
(* setup() after wd.init() that never returns lets the watchdog expire,    *)
(* and the expiry resets.                                                  *)
C20_NoFeedDuringStartup ==
    /\ [][ (wd.state = "Armed" /\ wd'.state = "Armed" /\ wd'.timer < wd.timer)
           => ( /\ pc = "wdLoop"
                /\ iter = <<"sensorsLoop", "batteryloop", "bleLoop", "wifiLoop",
                            "influxDbLoop", "otaLoop">>
                /\ wd'.timer = 0 ) ]_vars
    /\ [] ( pc \in {"wifiInit", "bleServerInit", "influxDbInit", "welcomeStatus",
                    "showMain", "sensorsLoopSetup", "setSampleTime"} =>
              /\ wd.state = "Armed"
              /\ wd.timer = Len(setupLog) - 7
              /\ iter = <<>> )
    /\ [] ( (pc \in LoopSteps /\ iter = <<>>) => wd.timer = 7 )
    /\ [] ( (pc \in SetupSteps /\ wd.state = "Armed" /\ stalled) =>
              (~ENABLED Setup /\ ~ENABLED Loop /\ ENABLED WdExpire) )
    /\ [][ (pc \in SetupSteps /\ wd.state = "Armed" /\ wd'.state = "Expired")
           => (stalled /\ pc' = "reset") ]_vars

C20_Witness ==
    /\ pc = "bleServerInit"
    /\ wd.state = "Armed"
    /\ wd.timer = 1
    /\ stalled
    /\ hpc = "idle"
=============================================================================
